---- MODULE Spec2Model ----
(***************************************************************************)
(* A model of the pradb client (pradb/src/pradb.rs): the smart-socket      *)
(* framing of Adb::_exec_cmd, the Adb session and the Device handles that  *)
(* Adb::devices builds on top of it.                                       *)
(*                                                                         *)
(* Strings are modelled as what a Rust String is: a sequence of bytes      *)
(* (integers 0..255).  The daemon on the other side of the TcpStream is    *)
(* the environment: the bytes it answers with, the moment it closes its    *)
(* side, a lost connection and a refused connect are inputs of the         *)
(* actions.                                                                *)
(***************************************************************************)
EXTENDS Integers, Sequences, FiniteSets, TLC

VARIABLES
    socks,      \* connection id -> the state of that TcpStream
    adb,        \* the discovering session: the connection id of Adb.s
    devices,    \* the Vec<Device> the caller holds (the last one returned)
    nconn,      \* the number of connections opened so far
    calls,      \* the number of public calls made so far
    pc,         \* the caller: "idle" between two calls, "returned" when a
                \* call has just returned, or where its thread ended:
                \* "hang" in a read that blocks for ever, "panic"
    last        \* an observation of the call that has just been made

vars == <<socks, adb, devices, nconn, calls, pc, last>>

----------------------------------------------------------------------------
(* Bounds of the model. *)

\* the number of public calls one behaviour makes
MaxCalls == 3

\* the number of calls of _exec_cmd one behaviour of SpecExec makes
MaxExecCalls == 2

\* SpecFrame sweeps every command length from 0 to this one
MaxSweepLen == 130

----------------------------------------------------------------------------
(* Bytes *)

\* '\t', the separator of devices()' device_data split
TAB == 9

\* '\n', the separator of every split('\n')
NL == 10

\* '\r'
CR == 13

\* "OKAY"
OKAY == <<79, 75, 65, 89>>

\* "FAIL"
FAIL == <<70, 65, 73, 76>>

\* "0000", the literal devices() compares the body to
ZEROS == <<48, 48, 48, 48>>

\* "Error:", the substring install_package looks for
ERROR_MARK == <<69, 114, 114, 111, 114, 58>>

\* the largest length four hexadecimal digits represent
MaxFrameLen == 65535

Min(a, b) == IF a < b THEN a ELSE b

Take(s, n) == SubSeq(s, 1, Min(n, Len(s)))

Drop(s, n) == SubSeq(s, n + 1, Len(s))

\* whether sub occurs in s at position i
OccursAt(sub, s, i) ==
    /\ i >= 1
    /\ i + Len(sub) - 1 <= Len(s)
    /\ SubSeq(s, i, i + Len(sub) - 1) = sub

\* str::contains
Contains(s, sub) == \E i \in 1..(Len(s) + 1) : OccursAt(sub, s, i)

\* str::split(sep) for a one-byte separator: the pieces between the
\* separators, empty pieces included (n separators give n + 1 pieces)
RECURSIVE SplitFrom(_, _, _, _)
SplitFrom(s, sep, i, cur) ==
    IF i > Len(s) THEN <<cur>>
    ELSE IF s[i] = sep THEN <<cur>> \o SplitFrom(s, sep, i + 1, <<>>)
    ELSE SplitFrom(s, sep, i + 1, Append(cur, s[i]))

Split(s, sep) == SplitFrom(s, sep, 1, <<>>)

\* Iterator::filter(|s| !s.is_empty())
NonEmpty(pieces) == SelectSeq(pieces, LAMBDA p : p # <<>>)

----------------------------------------------------------------------------
(* String::from_utf8: whether a byte sequence is well-formed UTF-8 *)

IsCont(b) == b >= 128 /\ b <= 191

\* the length of the well-formed UTF-8 sequence starting at s[i], 0 if none
Utf8SeqLen(s, i) ==
    LET b == s[i]
        has(k) == i + k <= Len(s)
    IN  IF b < 128 THEN 1
        ELSE IF b >= 194 /\ b <= 223
            THEN IF has(1) /\ IsCont(s[i + 1]) THEN 2 ELSE 0
        ELSE IF b >= 224 /\ b <= 239
            THEN IF /\ has(2)
                    /\ IsCont(s[i + 1])
                    /\ IsCont(s[i + 2])
                    /\ (b = 224 => s[i + 1] >= 160)
                    /\ (b = 237 => s[i + 1] <= 159)
                 THEN 3 ELSE 0
        ELSE IF b >= 240 /\ b <= 244
            THEN IF /\ has(3)
                    /\ IsCont(s[i + 1])
                    /\ IsCont(s[i + 2])
                    /\ IsCont(s[i + 3])
                    /\ (b = 240 => s[i + 1] >= 144)
                    /\ (b = 244 => s[i + 1] <= 143)
                 THEN 4 ELSE 0
        ELSE 0

RECURSIVE ValidUtf8From(_, _)
ValidUtf8From(s, i) ==
    IF i > Len(s) THEN TRUE
    ELSE LET k == Utf8SeqLen(s, i)
         IN  k > 0 /\ ValidUtf8From(s, i + k)

ValidUtf8(s) == ValidUtf8From(s, 1)

\* str::chars().count(): the bytes that start a character
CharCount(s) == Cardinality({i \in 1..Len(s) : ~IsCont(s[i])})

----------------------------------------------------------------------------
(* format!("{:04X}{}", cmd.len(), cmd) *)

LowerHexDigit(d) == IF d < 10 THEN 48 + d ELSE 87 + d

\* one digit of {:X}: '0'..'9', 'A'..'F'
UpperHexDigit(d) == IF d < 10 THEN 48 + d ELSE 55 + d

\* {:X}: the digits of n, most significant first, no padding
RECURSIVE UpperHex(_)
UpperHex(n) ==
    IF n < 16 THEN <<UpperHexDigit(n)>>
    ELSE Append(UpperHex(n \div 16), UpperHexDigit(n % 16))

\* {:04X}: zero-padded on the left to a width of at least 4
Hex04(n) ==
    LET d == UpperHex(n)
    IN  [i \in 1..(IF Len(d) < 4 THEN 4 - Len(d) ELSE 0) |-> 48] \o d

CharLenFrame(cmd) == Hex04(CharCount(cmd)) \o cmd

\* the request _exec_cmd writes: cmd.len() is the length in bytes
Frame(cmd) == Hex04(Len(cmd)) \o cmd

----------------------------------------------------------------------------
(* i32::from_str_radix(s, 16) *)

IsHexDigit(b) ==
    \/ b >= 48 /\ b <= 57
    \/ b >= 65 /\ b <= 70
    \/ b >= 97 /\ b <= 102

HexVal(b) ==
    IF b <= 57 THEN b - 48
    ELSE IF b <= 70 THEN b - 55
    ELSE b - 87

RECURSIVE DigitsVal(_)
DigitsVal(s) ==
    IF s = <<>> THEN 0
    ELSE 16 * DigitsVal(SubSeq(s, 1, Len(s) - 1)) + HexVal(s[Len(s)])

\* the text is an optional sign, '+' or '-' (i32 is signed), and then at
\* least one digit; four bytes cannot overflow an i32
from_str_radix(s) ==
    LET signed == s # <<>> /\ s[1] \in {43, 45}
        digits == IF signed THEN Drop(s, 1) ELSE s
    IN  IF digits = <<>> \/ \E i \in 1..Len(digits) : ~IsHexDigit(digits[i])
        THEN [ok |-> FALSE, val |-> 0]
        ELSE [ok |-> TRUE,
              val |-> IF signed /\ s[1] = 45 THEN 0 - DigitsVal(digits)
                      ELSE DigitsVal(digits)]

----------------------------------------------------------------------------
(* The TcpStream of one connection, seen from the client.                  *)
(*   inb     the bytes the daemon has sent and the client has not read     *)
(*   eof     the daemon has closed its side: after inb comes end of stream *)
(*   shut    the client has called shutdown(Shutdown::Both)                *)
(*   broken  the connection is lost: every further read and write fails    *)

NewSock == [inb |-> <<>>, eof |-> FALSE, shut |-> FALSE, broken |-> FALSE]

\* the stream once the connection is lost: nothing more is read from it
Lose(s) == [inb |-> <<>>, eof |-> FALSE, shut |-> s.shut, broken |-> TRUE]

\* one entry of the log of the calls _exec_cmd makes on its stream
IoOp(op, n, data, st) == [op |-> op, n |-> n, data |-> data, st |-> st]

\* Read::read_exact on the stream: n bytes or an error, and it blocks while
\* fewer than n bytes are there and the daemon has not closed.  A buffer of
\* length 0 is filled without a read.  lost: the connection is lost here.
read_exact(s, n, lost) ==
    IF n = 0
    THEN [st |-> "ok", data |-> <<>>, sock |-> s]
    ELSE IF lost \/ s.broken
    THEN [st |-> "err", data |-> <<>>, sock |-> Lose(s)]
    ELSE IF s.shut
    THEN [st |-> "err", data |-> <<>>, sock |-> s]
    ELSE IF Len(s.inb) >= n
    THEN [st |-> "ok", data |-> Take(s.inb, n),
          sock |-> [s EXCEPT !.inb = Drop(s.inb, n)]]
    ELSE IF s.eof
    THEN [st |-> "err", data |-> s.inb, sock |-> [s EXCEPT !.inb = <<>>]]
    ELSE [st |-> "hang", data |-> <<>>, sock |-> s]

\* Read::read_to_string on the stream: everything up to the end of stream;
\* bytes that are not UTF-8 are an io::Error (InvalidData)
read_to_string(s, lost) ==
    IF lost \/ s.broken
    THEN [st |-> "err", data |-> <<>>, sock |-> Lose(s)]
    ELSE IF s.shut
    THEN [st |-> "ok", data |-> <<>>, sock |-> s]
    ELSE IF ~s.eof
    THEN [st |-> "hang", data |-> <<>>, sock |-> s]
    ELSE [st |-> IF ValidUtf8(s.inb) THEN "ok" ELSE "err",
          data |-> s.inb, sock |-> [s EXCEPT !.inb = <<>>]]

ReconnectingWrite(s, data, reply, lost) ==
    IF lost \/ s.broken
    THEN [st |-> "err", sock |-> Lose(s)]
    ELSE IF s.shut
    THEN [st |-> "err", sock |-> s]
    ELSE [st |-> "ok",
          sock |-> [s EXCEPT !.inb = @ \o reply.bytes, !.eof = reply.close]]

WriteAfterShutdown(s, data, reply, lost) ==
    IF lost \/ s.broken
    THEN [st |-> "err", sock |-> Lose(s)]
    ELSE [st |-> "ok", sock |-> s]

\* Write::write_all of the request; the daemon then answers with reply,
\* unless it has closed its side already
write_all(s, data, reply, lost) ==
    IF lost \/ s.broken
    THEN [st |-> "err", sock |-> Lose(s)]
    ELSE IF s.shut
    THEN [st |-> "err", sock |-> s]
    ELSE IF s.eof
    THEN [st |-> "ok", sock |-> s]
    ELSE [st |-> "ok",
          sock |-> [s EXCEPT !.inb = @ \o reply.bytes, !.eof = reply.close]]

----------------------------------------------------------------------------
(* Adb::_exec_cmd *)

IoKind(st) == IF st = "hang" THEN "Hang" ELSE "IOError"

IgnoreCaseClassify(rp) ==
    LET upper == [i \in 1..Len(rp) |->
                     IF rp[i] >= 97 /\ rp[i] <= 122 THEN rp[i] - 32 ELSE rp[i]]
    IN  IF upper = OKAY THEN "Ok"
        ELSE IF upper = FAIL THEN "Fail"
        ELSE "Unknown"

\* the three-way comparison of the status token
Classify(rp) ==
    IF rp = OKAY THEN "Ok"
    ELSE IF rp = FAIL THEN "Fail"
    ELSE "Unknown"

LenientReadBody(s, read_response, has_length, lost, k) ==
    LET Body(r) ==
            [kind |-> "ok", body |-> IF r.st = "ok" THEN r.data ELSE <<>>,
             sock |-> r.sock,
             ops |-> <<IoOp("read_to_string", 0, r.data, r.st)>>]
    IN  IF ~read_response
        THEN [kind |-> "ok", body |-> <<>>, sock |-> s, ops |-> <<>>]
        ELSE Body(read_to_string(s, lost = k))

ToEofReadBody(s, read_response, has_length, lost, k) ==
    LET Body(r) ==
            [kind |-> IF r.st = "ok" THEN "ok" ELSE IoKind(r.st),
             body |-> IF r.st = "ok" THEN r.data ELSE <<>>, sock |-> r.sock,
             ops |-> <<IoOp("read_to_string", 0, r.data, r.st)>>]
    IN  Body(read_to_string(s, lost = k))

\* the body read: nothing, a length and that many bytes, or up to the end
\* of the stream.  k numbers the next call on the stream (for lost).
ReadBody(s, read_response, has_length, lost, k) ==
    LET Failed(kind, sock, ops) ==
            [kind |-> kind, body |-> <<>>, sock |-> sock, ops |-> ops]
        Read(r, ops) ==
            IF r.st # "ok" THEN Failed(IoKind(r.st), r.sock, ops)
            ELSE [kind |-> "ok", body |-> r.data, sock |-> r.sock, ops |-> ops]
        \* String::from_utf8 of the buffer read_exact filled
        Decoded(r, ops) ==
            IF r.st = "ok" /\ ~ValidUtf8(r.data)
            THEN Failed("InvalidString", r.sock, ops)
            ELSE Read(r, ops)
        Sized(lop, n, r) ==
            Decoded(r, <<lop, IoOp("read_exact", n, r.data, r.st)>>)
        Parsed(l, lop, p) ==
            IF l.st # "ok" THEN Failed(IoKind(l.st), l.sock, <<lop>>)
            ELSE IF ~ValidUtf8(l.data)
            THEN Failed("InvalidString", l.sock, <<lop>>)
            ELSE IF ~p.ok THEN Failed("InvalidHex", l.sock, <<lop>>)
            \* vec![0; hex_length as usize]: a negative i32 is a length
            \* above isize::MAX, and the allocation panics
            ELSE IF p.val < 0 THEN Failed("Panic", l.sock, <<lop>>)
            ELSE Sized(lop, p.val, read_exact(l.sock, p.val, lost = k + 1))
        Length(l) ==
            Parsed(l, IoOp("read_exact", 4, l.data, l.st),
                   from_str_radix(l.data))
        ToEof(r) == Read(r, <<IoOp("read_to_string", 0, r.data, r.st)>>)
    IN  IF ~read_response
        THEN [kind |-> "ok", body |-> <<>>, sock |-> s, ops |-> <<>>]
        ELSE IF has_length THEN Length(read_exact(s, 4, lost = k))
        ELSE ToEof(read_to_string(s, lost = k))

\* The result is the stream as the call leaves it, how the call ended (kind: a
\* Response variant, an AdbSocketError variant, "Hang" for a read that blocks
\* for ever, "Panic"), the body, the status token read (rp), the log of the
\* calls made on the stream, and the arguments of the call.
\* s: the stream; reply: what the daemon answers to the request; lost: the
\* number of the call on the stream at which the connection is lost (0: never)
_exec_cmd(s, cmd, has_prefix, read_response, has_length, reply, lost) ==
    LET ExecResult(sock, kind, body, rp, ops) ==
            [sock |-> sock, kind |-> kind, body |-> body, rp |-> rp,
             ops |-> ops, cmd |-> cmd, has_prefix |-> has_prefix,
             read_response |-> read_response, has_length |-> has_length]
        \* b: the body read; the match on the status token
        Classified(rp, ops, b) ==
            IF b.kind # "ok"
            THEN ExecResult(b.sock, b.kind, <<>>, rp, ops \o b.ops)
            ELSE ExecResult(b.sock, Classify(rp), b.body, rp, ops \o b.ops)
        \* t: the read of the status token (of nothing without has_prefix)
        Status(t, ops) ==
            IF t.st # "ok"
            THEN ExecResult(t.sock, IoKind(t.st), <<>>, <<>>, ops)
            ELSE IF ~ValidUtf8(t.data)
            THEN ExecResult(t.sock, "InvalidString", <<>>, <<>>, ops)
            ELSE Classified(t.data, ops,
                            ReadBody(t.sock, read_response, has_length, lost,
                                     IF has_prefix THEN 3 ELSE 2))
        Prefix(t, wop) ==
            Status(t, <<wop, IoOp("read_exact", 4, t.data, t.st)>>)
        \* w: the write of the request
        Written(w, wop) ==
            IF w.st # "ok"
            THEN ExecResult(w.sock, "IOError", <<>>, <<>>, <<wop>>)
            ELSE IF has_prefix
            THEN Prefix(read_exact(w.sock, 4, lost = 2), wop)
            ELSE Status([st |-> "ok", data |-> <<>>, sock |-> w.sock],
                        <<wop>>)
        Write(hex_length, w) ==
            Written(w, IoOp("write", Len(hex_length), hex_length, w.st))
        Request(hex_length) ==
            Write(hex_length, write_all(s, hex_length, reply, lost = 1))
    IN  Request(Frame(cmd))

----------------------------------------------------------------------------
(* The values the public calls return *)

\* kind: "Ok", "Err", or no return at all: "Panic", "Hang"
\* tag: the variant of the error enum (of Response for an Ok(Response))
\* sub: the error wrapped by the variant; text: the string carried
\* items: the collection carried by an Ok
Ret(kind, tag, sub, text, items) ==
    [kind |-> kind, tag |-> tag, sub |-> sub, text |-> text, items |-> items]

RetOk(tag, text, items) == Ret("Ok", tag, "", text, items)

RetErr(tag, sub, text) == Ret("Err", tag, sub, text, <<>>)

\* the call does not return: the thread panicked, or blocks for ever
NoReturn(kind) == Ret(kind, "", "", <<>>, <<>>)

IsResponse(kind) == kind \in {"Ok", "Fail", "Unknown"}

IsSocketError(kind) == kind \in {"IOError", "InvalidString", "InvalidHex"}

\* no call of _exec_cmd was made
NoExec ==
    [kind |-> "None", body |-> <<>>, rp |-> <<>>, ops |-> <<>>, cmd |-> <<>>,
     has_prefix |-> FALSE, read_response |-> FALSE, has_length |-> FALSE]

----------------------------------------------------------------------------
(* Adb::close *)

UnwrapClose(s, notconn) ==
    [sock |-> [s EXCEPT !.shut = TRUE],
     ret |-> IF notconn /\ (s.shut \/ s.eof \/ s.broken)
             THEN NoReturn("Panic")
             ELSE RetOk("", <<>>, <<>>)]

\* TcpStream::shutdown(Shutdown::Both): both directions are shut whatever
\* the call answers.  On a connection that is up it answers Ok; on one
\* already shut, closed by the daemon or lost, the system may answer
\* ENOTCONN (notconn), which the `?` turns into PradbErrors::IOError.
close(s, notconn) ==
    [sock |-> [s EXCEPT !.shut = TRUE],
     ret |-> IF notconn /\ (s.shut \/ s.eof \/ s.broken)
             THEN RetErr("IOError", "NotConnected", <<>>)
             ELSE RetOk("", <<>>, <<>>)]

----------------------------------------------------------------------------
(* Adb::new, Device::new and Adb::devices *)

\* "host:devices"
HOST_DEVICES == <<104, 111, 115, 116, 58, 100, 101, 118, 105, 99, 101, 115>>

\* TcpStream::connect: fresh is the connection the system opens, accepted
\* whether the daemon accepts it
Adb_new(fresh, accepted) ==
    IF accepted THEN [ok |-> TRUE, s |-> fresh]
    ELSE [ok |-> FALSE, s |-> 0]

SharedDevice_new(sn, model, fresh, accepted) ==
    [ok |-> accepted,
     dev |-> [adb |-> adb, serial_no |-> sn, model |-> model,
              using_device |-> FALSE]]

Device_new(sn, model, fresh, accepted) ==
    LET a == Adb_new(fresh, accepted)
    IN  [ok |-> a.ok,
         dev |-> [adb |-> a.s, serial_no |-> sn, model |-> model,
                  using_device |-> FALSE]]

\* the closure of devices(): the line splits at the tabs, device_data[0] and
\* device_data[1] are indexed (a panic when absent), Device::new(..).unwrap()
\* panics on a refused connection
DeviceOfLine(s, fresh, accepted) ==
    LET device_data == Split(s, TAB)
    IN  IF Len(device_data) < 2
        THEN [ok |-> FALSE, connected |-> FALSE, dev |-> <<>>]
        ELSE LET d == Device_new(device_data[1], device_data[2], fresh, accepted)
             IN  [ok |-> d.ok, connected |-> d.ok, dev |-> d.dev]

\* rp.split('\n').filter(..).map(..).collect(): the lines are mapped in
\* order, so the first line that panics ends the call; base is the number of
\* connections opened before, refusedAt the connect the daemon refuses (0: none)
MapDevices(rp, base, refusedAt) ==
    LET lines == NonEmpty(Split(rp, NL))
        made == [j \in 1..Len(lines) |->
                    DeviceOfLine(lines[j], base + j, j # refusedAt)]
        bad == {j \in 1..Len(lines) : ~made[j].ok}
    IN  IF bad = {}
        THEN [panic |-> FALSE, devs |-> [j \in 1..Len(lines) |-> made[j].dev],
              opened |-> Len(lines)]
        ELSE LET first == CHOOSE j \in bad : \A k \in bad : j <= k
             IN  [panic |-> TRUE, devs |-> <<>>, opened |-> first - 1]

LenientDevicesRet(r, base, refusedAt) ==
    IF IsResponse(r.kind)
    THEN LET m == MapDevices(r.body, base, refusedAt)
         IN  [ret |-> IF m.panic THEN NoReturn("Panic")
                      ELSE RetOk("", <<>>, m.devs),
              opened |-> m.opened]
    ELSE [ret |-> RetErr("AdbRelated", r.kind, <<>>), opened |-> 0]

\* the match of devices() on the Response, and the `?` on the socket error
DevicesRet(r, base, refusedAt) ==
    IF r.kind = "Ok"
    THEN IF r.body = ZEROS
         THEN [ret |-> RetOk("", <<>>, <<>>), opened |-> 0]
         ELSE LET m == MapDevices(r.body, base, refusedAt)
              IN  [ret |-> IF m.panic THEN NoReturn("Panic")
                           ELSE RetOk("", <<>>, m.devs),
                   opened |-> m.opened]
    ELSE IF r.kind = "Fail"
    THEN [ret |-> RetErr("ResponseRelated", "Fail", r.body), opened |-> 0]
    ELSE IF r.kind = "Unknown"
    THEN [ret |-> RetErr("Unknown", "", r.body), opened |-> 0]
    ELSE IF IsSocketError(r.kind)
    THEN [ret |-> RetErr("AdbRelated", r.kind, <<>>), opened |-> 0]
    ELSE [ret |-> NoReturn(r.kind), opened |-> 0]

----------------------------------------------------------------------------
(* The operations of Device.  Each takes the handle, the stream of the     *)
(* handle's own Adb, and the inputs of _exec_cmd; each gives the result of *)
(* _exec_cmd (exec), what the call returns (ret) and using_device after.   *)

\* "host:transport:"
HOST_TRANSPORT ==
    <<104, 111, 115, 116, 58, 116, 114, 97, 110, 115, 112, 111, 114, 116, 58>>

\* "shell:"
SHELL == <<115, 104, 101, 108, 108, 58>>

\* "shell:getprop:"
SHELL_GETPROP == SHELL \o <<103, 101, 116, 112, 114, 111, 112, 58>>

\* "shell:pm list packages 2> /dev/null"
SHELL_PM_LIST ==
    SHELL \o <<112, 109, 32, 108, 105, 115, 116, 32, 112, 97, 99, 107, 97,
               103, 101, 115, 32, 50, 62, 32, 47, 100, 101, 118, 47, 110,
               117, 108, 108>>

\* "pm install "
PM_INSTALL == <<112, 109, 32, 105, 110, 115, 116, 97, 108, 108, 32>>

\* "]: [", the middle of the pattern of get_properties
PROP_SEP == <<93, 58, 32, 91>>

use_device(d, s, reply, lost) ==
    LET Selected(r) ==
            IF IsResponse(r.kind)
            THEN [exec |-> r, ret |-> RetOk(r.kind, r.body, <<>>),
                  using |-> TRUE]
            ELSE IF IsSocketError(r.kind)
            THEN [exec |-> r, ret |-> RetErr(r.kind, "", <<>>),
                  using |-> d.using_device]
            ELSE [exec |-> r, ret |-> NoReturn(r.kind),
                  using |-> d.using_device]
    IN  Selected(_exec_cmd(s, HOST_TRANSPORT \o d.serial_no, TRUE, FALSE,
                           FALSE, reply, lost))

GuardedShell(d, s, cmd, reply, lost) ==
    LET Output(r) ==
            [exec |-> r,
             ret |-> IF r.kind = "Ok" THEN RetOk("", r.body, <<>>)
                     ELSE IF r.kind \in {"Fail", "Unknown"}
                     THEN RetErr("ResponseError", "", r.body)
                     ELSE IF IsSocketError(r.kind)
                     THEN RetErr("SocketError", r.kind, <<>>)
                     ELSE NoReturn(r.kind),
             using |-> d.using_device]
    IN  IF ~d.using_device
        THEN [exec |-> NoExec, ret |-> RetErr("SocketError", "IOError", <<>>),
              using |-> d.using_device]
        ELSE Output(_exec_cmd(s, SHELL \o cmd, TRUE, TRUE, FALSE, reply, lost))

TrimmingShell(d, s, cmd, reply, lost) ==
    LET Trimmed(body) ==
            IF body # <<>> /\ body[Len(body)] = NL
            THEN SubSeq(body, 1, Len(body) - 1) ELSE body
        Output(r) ==
            [exec |-> r,
             ret |-> IF r.kind = "Ok" THEN RetOk("", Trimmed(r.body), <<>>)
                     ELSE IF r.kind \in {"Fail", "Unknown"}
                     THEN RetErr("ResponseError", "", r.body)
                     ELSE IF IsSocketError(r.kind)
                     THEN RetErr("SocketError", r.kind, <<>>)
                     ELSE NoReturn(r.kind),
             using |-> d.using_device]
    IN  Output(_exec_cmd(s, SHELL \o cmd, TRUE, TRUE, FALSE, reply, lost))

shell(d, s, cmd, reply, lost) ==
    LET Output(r) ==
            [exec |-> r,
             ret |-> IF r.kind = "Ok" THEN RetOk("", r.body, <<>>)
                     ELSE IF r.kind \in {"Fail", "Unknown"}
                     THEN RetErr("ResponseError", "", r.body)
                     ELSE IF IsSocketError(r.kind)
                     THEN RetErr("SocketError", r.kind, <<>>)
                     ELSE NoReturn(r.kind),
             using |-> d.using_device]
    IN  Output(_exec_cmd(s, SHELL \o cmd, TRUE, TRUE, FALSE, reply, lost))

\* the pattern ^\[([\s\S]*?)\]: \[([\s\S]*?)\]\r?$ on one line: the key ends
\* at the first "]: [", the value at the "]" that ends the line (before an
\* optional '\r')
PropCaptures(line) ==
    LET n == Len(line)
        closing == IF n >= 1 /\ line[n] = 93 THEN n
                   ELSE IF n >= 2 /\ line[n] = CR /\ line[n - 1] = 93 THEN n - 1
                   ELSE 0
        seps == {p \in 2..n : OccursAt(PROP_SEP, line, p) /\ p + 4 <= closing}
    IN  IF n = 0 \/ line[1] # 91 \/ closing = 0 \/ seps = {}
        THEN [matched |-> FALSE, key |-> <<>>, value |-> <<>>]
        ELSE LET p == CHOOSE q \in seps : \A q2 \in seps : q <= q2
             IN  [matched |-> TRUE,
                  key |-> SubSeq(line, 2, p - 1),
                  value |-> SubSeq(line, p + 4, closing - 1)]

RECURSIVE KeepFirstProps(_, _, _)
KeepFirstProps(lines, i, properties) ==
    IF i > Len(lines) THEN properties
    ELSE LET c == PropCaptures(lines[i])
         IN  KeepFirstProps(lines, i + 1,
                IF c.matched
                THEN [k \in DOMAIN properties \cup {c.key} |->
                         IF k \in DOMAIN properties THEN properties[k]
                         ELSE c.value]
                ELSE properties)

\* HashMap::insert of the captures of every matching line, in order
RECURSIVE InsertProps(_, _, _)
InsertProps(lines, i, properties) ==
    IF i > Len(lines) THEN properties
    ELSE LET c == PropCaptures(lines[i])
         IN  InsertProps(lines, i + 1,
                IF c.matched
                THEN [k \in DOMAIN properties \cup {c.key} |->
                         IF k = c.key THEN c.value ELSE properties[k]]
                ELSE properties)

get_properties(d, s, reply, lost) ==
    LET Table(r) ==
            [exec |-> r,
             ret |-> IF r.kind = "Ok"
                     THEN RetOk("", <<>>,
                                InsertProps(Split(r.body, NL), 1, <<>>))
                     ELSE IF r.kind \in {"Fail", "Unknown"}
                     THEN RetErr("ResponseError", "", r.body)
                     ELSE IF IsSocketError(r.kind)
                     THEN RetErr("ServerError", r.kind, <<>>)
                     ELSE NoReturn(r.kind),
             using |-> d.using_device]
    IN  Table(_exec_cmd(s, SHELL_GETPROP, TRUE, TRUE, FALSE, reply, lost))

get_property(d, s, property, reply, lost) ==
    LET Value(r) ==
            [exec |-> r,
             ret |-> IF IsResponse(r.kind) THEN RetOk(r.kind, r.body, <<>>)
                     ELSE IF IsSocketError(r.kind)
                     THEN RetErr("ServerError", r.kind, <<>>)
                     ELSE NoReturn(r.kind),
             using |-> d.using_device]
    IN  Value(_exec_cmd(s, SHELL_GETPROP \o property, TRUE, FALSE, FALSE,
                        reply, lost))

\* line.to_string().drain(8..).collect(): the line from its ninth byte on; a
\* panic when the line is shorter than 8 bytes or byte 8 ends inside a character
PackageOfLine(line) ==
    IF Len(line) < 8 \/ (Len(line) > 8 /\ IsCont(line[9]))
    THEN [ok |-> FALSE, name |-> <<>>]
    ELSE [ok |-> TRUE, name |-> Drop(line, 8)]

list_packages(d, s, reply, lost) ==
    LET Names(lines) ==
            IF \E j \in 1..Len(lines) : ~PackageOfLine(lines[j]).ok
            THEN NoReturn("Panic")
            ELSE RetOk("", <<>>,
                       [j \in 1..Len(lines) |-> PackageOfLine(lines[j]).name])
        Listed(r) ==
            [exec |-> r,
             ret |-> IF r.kind = "Ok" THEN Names(NonEmpty(Split(r.body, NL)))
                     ELSE IF r.kind \in {"Fail", "Unknown"}
                     THEN RetErr("ResponseError", "", r.body)
                     ELSE IF IsSocketError(r.kind)
                     THEN RetErr("ServerError", r.kind, <<>>)
                     ELSE NoReturn(r.kind),
             using |-> d.using_device]
    IN  Listed(_exec_cmd(s, SHELL_PM_LIST, TRUE, TRUE, FALSE, reply, lost))

LateCheckInstall(d, s, package, exists, reply, lost) ==
    LET Installed(sh) ==
            [exec |-> sh.exec,
             ret |-> IF sh.ret.kind \in {"Hang", "Panic"} THEN sh.ret
                     ELSE IF ~exists THEN RetErr("FileNotFound", "", <<>>)
                     ELSE IF sh.ret.kind = "Err"
                     THEN RetErr("ServerError", sh.ret.tag, sh.ret.text)
                     ELSE IF Contains(sh.ret.text, ERROR_MARK)
                     THEN RetErr("PackageNotInstalled", "", sh.ret.text)
                     ELSE RetOk("", <<>>, <<>>),
             using |-> sh.using]
    IN  Installed(shell(d, s, PM_INSTALL \o package, reply, lost))

\* package: the bytes of the path; exists: what Path::exists answers.
\* to_str().unwrap() panics on a path that is not UTF-8.  The `?` wraps every
\* AdbShellError of shell() in InstallError::ServerError.
install_package(d, s, package, exists, reply, lost) ==
    LET Installed(sh) ==
            [exec |-> sh.exec,
             ret |-> IF sh.ret.kind = "Ok"
                     THEN IF Contains(sh.ret.text, ERROR_MARK)
                          THEN RetErr("PackageNotInstalled", "", sh.ret.text)
                          ELSE RetOk("", <<>>, <<>>)
                     ELSE IF sh.ret.kind = "Err"
                     THEN RetErr("ServerError",
                                 IF sh.ret.tag = "SocketError"
                                 THEN sh.ret.sub ELSE sh.ret.tag,
                                 sh.ret.text)
                     ELSE sh.ret,
             using |-> sh.using]
    IN  IF ~exists
        THEN [exec |-> NoExec, ret |-> RetErr("FileNotFound", "", <<>>),
              using |-> d.using_device]
        ELSE IF ~ValidUtf8(package)
        THEN [exec |-> NoExec, ret |-> NoReturn("Panic"),
              using |-> d.using_device]
        ELSE Installed(shell(d, s, PM_INSTALL \o package, reply, lost))

----------------------------------------------------------------------------
(* The environment: what the daemon answers, what the caller passes *)

Reply(bytes, closes) == [bytes |-> bytes, close |-> closes]

\* the daemon's length-prefixed payload: four lower-case hexadecimal digits
DaemonLP(body) ==
    [i \in 1..4 |-> LowerHexDigit((Len(body) \div (16 ^ (4 - i))) % 16)]
        \o body

\* "WHAT", a status token that is neither OKAY nor FAIL
WHAT == <<87, 72, 65, 84>>

\* "A1<TAB>dv<NL>" and "B2<TAB>of<NL>"
LINE1 == <<65, 49, TAB, 100, 118, NL>>

LINE2 == <<66, 50, TAB, 111, 102, NL>>

\* "no"
TEXT_NO == <<110, 111>>

\* the bodies of the answer to host:devices: no device, the literal 0000,
\* one and two devices, an empty line between two devices and no final
\* newline, a line without a tab, a line with two tabs
DeviceBodies ==
    { <<>>, ZEROS, LINE1, LINE1 \o LINE2,
      LINE1 \o <<NL>> \o SubSeq(LINE2, 1, 5),
      <<65, 49, NL>>,
      <<65, 49, TAB, 100, 118, TAB, 120, NL>> }

DeviceReplies ==
    {Reply(OKAY \o DaemonLP(b), TRUE) : b \in DeviceBodies}
    \cup {Reply(OKAY \o DaemonLP(LINE1), FALSE),
          Reply(OKAY \o DaemonLP(LINE1) \o TEXT_NO, TRUE),
          Reply(FAIL \o DaemonLP(TEXT_NO), TRUE),
          Reply(FAIL \o DaemonLP(LINE1), TRUE),
          Reply(FAIL \o DaemonLP(ZEROS), TRUE),
          Reply(WHAT \o DaemonLP(TEXT_NO), TRUE),
          Reply(WHAT \o DaemonLP(LINE1), TRUE),
          Reply(Take(OKAY, 2), TRUE),
          Reply(Take(OKAY, 2), FALSE),
          Reply(<<255>> \o Take(OKAY, 3), TRUE),
          Reply(OKAY \o <<48, 48, 103, 48>>, TRUE),
          Reply(OKAY \o <<45, 48, 48, 49>>, TRUE),
          Reply(OKAY \o <<43, 48, 48, 54>> \o LINE1, TRUE),
          Reply(OKAY \o DaemonLP(<<255, 254>>), TRUE),
          Reply(OKAY \o <<48, 48, 48, 57>> \o LINE1, TRUE)}

\* what a shell command prints: nothing, "hi<NL>", "Success<NL>",
\* "x Error: no<NL>", property lines, package lines
ShellOutputs ==
    { <<>>,
      <<104, 105, NL>>,
      <<83, 117, 99, 99, 101, 115, 115, NL>>,
      <<120, 32>> \o ERROR_MARK \o <<32>> \o TEXT_NO \o <<NL>>,
      <<91, 107, 93, 58, 32, 91, 118, 93, NL,
        91, 107, 93, 58, 32, 91, 119, 93, CR, NL,
        104, 105, NL>>,
      <<112, 97, 99, 107, 97, 103, 101, 58, 97, NL,
        112, 97, 99, 107, 97, 103, 101, 58, 98, NL>> }

ShellReplies ==
    {Reply(OKAY \o o, TRUE) : o \in ShellOutputs}
    \cup {Reply(FAIL \o DaemonLP(TEXT_NO), TRUE),
          Reply(WHAT \o TEXT_NO, TRUE),
          Reply(OKAY \o TEXT_NO, FALSE),
          Reply(OKAY \o <<255>>, TRUE),
          Reply(Take(OKAY, 2), TRUE)}

\* the answers to a command whose body _exec_cmd does not read
TransportReplies ==
    {Reply(OKAY, FALSE),
     Reply(OKAY \o TEXT_NO \o <<NL>>, TRUE),
     Reply(FAIL \o DaemonLP(TEXT_NO), FALSE),
     Reply(FAIL \o DaemonLP(TEXT_NO), TRUE),
     Reply(WHAT, FALSE),
     Reply(Take(OKAY, 2), TRUE)}

\* the call on the stream at which the connection is lost (0: never);
\* _exec_cmd makes at most four: the write and three reads
LostAt == 0..4

\* "ls", a command of one two-byte character, the empty command
ShellCmds == { <<108, 115>>, <<195, 169>>, <<>> }

\* "ro"
Properties == { <<114, 111>> }

\* "a.apk" and a path that is not UTF-8
Packages == { <<97, 46, 97, 112, 107>>, <<255, 97>> }

----------------------------------------------------------------------------
(* The state machine *)

\* the observation of a public call: the operation, the handle (0: the
\* session), its argument, the connection it ran on and that connection's
\* stream before, using_device before, the inputs from the environment, the
\* result of _exec_cmd without the stream, what the call returns, the
\* connections it opened, the connect that was refused, the connections
\* there were before and those among them whose stream it changed
Observe(op, dev, arg, conn, using, reply, lost, refusedAt, exec, ret, opened) ==
    [op |-> op, dev |-> dev, arg |-> arg, conn |-> conn,
     pre |-> socks[conn], using |-> using, reply |-> reply, lost |-> lost,
     refusedAt |-> refusedAt, conns |-> DOMAIN socks,
     exec |-> [kind |-> exec.kind, body |-> exec.body, rp |-> exec.rp,
               ops |-> exec.ops, cmd |-> exec.cmd,
               has_prefix |-> exec.has_prefix,
               read_response |-> exec.read_response,
               has_length |-> exec.has_length],
     ret |-> ret, opened |-> opened,
     touched |-> {c \in DOMAIN socks \cap DOMAIN socks' : socks'[c] # socks[c]}]

NoCall ==
    [op |-> "none", dev |-> 0, arg |-> <<>>, conn |-> 0, pre |-> NewSock,
     using |-> FALSE, reply |-> Reply(<<>>, FALSE), lost |-> 0,
     refusedAt |-> 0, conns |-> {},
     exec |-> NoExec, ret |-> NoReturn("None"), opened |-> 0, touched |-> {}]

PcAfter(ret) ==
    IF ret.kind = "Hang" THEN "hang"
    ELSE IF ret.kind = "Panic" THEN "panic"
    ELSE "returned"

\* the state after Adb::new() has connected: one stream, no handle
Init ==
    /\ socks = [c \in {1} |-> NewSock]
    /\ adb = 1
    /\ devices = <<>>
    /\ nconn = 1
    /\ calls = 0
    /\ pc = "idle"
    /\ last = NoCall

CanCall == pc = "idle" /\ calls < MaxCalls

\* Adb::devices; the caller keeps the Vec returned and drops the one it held
Devices ==
    /\ CanCall
    /\ \E reply \in DeviceReplies, lost \in LostAt, refusedAt \in 0..2 :
        LET Listed(r, d) ==
                LET returned == d.ret.kind = "Ok"
                    new == IF returned
                           THEN {d.ret.items[j].adb :
                                    j \in 1..Len(d.ret.items)}
                           ELSE {}
                    kept == IF returned THEN {adb} ELSE DOMAIN socks
                IN  /\ socks' = [c \in kept \cup new |->
                                    IF c = adb THEN r.sock
                                    ELSE IF c \in new THEN NewSock
                                    ELSE socks[c]]
                    /\ devices' = IF returned THEN d.ret.items ELSE devices
                    /\ nconn' = nconn + d.opened
                    /\ pc' = PcAfter(d.ret)
                    /\ last' = Observe("devices", 0, <<>>, adb, FALSE, reply,
                                       lost, refusedAt, r, d.ret, d.opened)
            Answered(r) == Listed(r, DevicesRet(r, nconn, refusedAt))
        IN  Answered(_exec_cmd(socks[adb], HOST_DEVICES, TRUE, TRUE, TRUE,
                               reply, lost))
    /\ calls' = calls + 1
    /\ UNCHANGED adb

\* the state after a call on handle i that gave h and left the stream st
HandleCall(op, i, arg, reply, lost, h) ==
    /\ socks' = [socks EXCEPT ![devices[i].adb] =
                    IF h.exec.kind = "None" THEN @ ELSE h.exec.sock]
    /\ devices' = [devices EXCEPT ![i].using_device = h.using]
    /\ pc' = PcAfter(h.ret)
    /\ calls' = calls + 1
    /\ last' = Observe(op, i, arg, devices[i].adb, devices[i].using_device,
                       reply, lost, 0, h.exec, h.ret, 0)
    /\ UNCHANGED <<adb, nconn>>

UseDevice ==
    /\ CanCall
    /\ \E i \in 1..Len(devices), reply \in TransportReplies, lost \in LostAt :
        HandleCall("use_device", i, <<>>, reply, lost,
                   use_device(devices[i], socks[devices[i].adb], reply, lost))

Shell ==
    /\ CanCall
    /\ \E i \in 1..Len(devices), cmd \in ShellCmds, reply \in ShellReplies,
          lost \in LostAt :
        HandleCall("shell", i, cmd, reply, lost,
                   shell(devices[i], socks[devices[i].adb], cmd, reply, lost))

GetProperties ==
    /\ CanCall
    /\ \E i \in 1..Len(devices), reply \in ShellReplies, lost \in LostAt :
        HandleCall("get_properties", i, <<>>, reply, lost,
                   get_properties(devices[i], socks[devices[i].adb],
                                  reply, lost))

GetProperty ==
    /\ CanCall
    /\ \E i \in 1..Len(devices), property \in Properties,
          reply \in TransportReplies, lost \in LostAt :
        HandleCall("get_property", i, property, reply, lost,
                   get_property(devices[i], socks[devices[i].adb], property,
                                reply, lost))

ListPackages ==
    /\ CanCall
    /\ \E i \in 1..Len(devices), reply \in ShellReplies, lost \in LostAt :
        HandleCall("list_packages", i, <<>>, reply, lost,
                   list_packages(devices[i], socks[devices[i].adb],
                                 reply, lost))

InstallPackage ==
    /\ CanCall
    /\ \E i \in 1..Len(devices), package \in Packages, exists \in BOOLEAN,
          reply \in ShellReplies, lost \in LostAt :
        HandleCall("install_package", i, [path |-> package, exists |-> exists],
                   reply, lost,
                   install_package(devices[i], socks[devices[i].adb], package,
                                   exists, reply, lost))

\* the caller takes what the call returned and goes on
Continue ==
    /\ pc = "returned"
    /\ pc' = "idle"
    /\ last' = NoCall
    /\ UNCHANGED <<socks, adb, devices, nconn, calls>>

Next ==
    \/ Continue
    \/ Devices
    \/ UseDevice
    \/ Shell
    \/ GetProperties
    \/ GetProperty
    \/ ListPackages
    \/ InstallPackage

Spec == Init /\ [][Next]_vars

----------------------------------------------------------------------------
(* _exec_cmd on its own: every combination of its flags, on one stream *)

\* "okay": the token in lower case
OKAY_LOWER == <<111, 107, 97, 121>>

ExecTokens == {OKAY, FAIL, WHAT, OKAY_LOWER}

\* what follows the status token: nothing, a length and a text, the same
\* with bytes after it
ExecBodies == { <<>>, DaemonLP(TEXT_NO), DaemonLP(TEXT_NO) \o TEXT_NO }

ExecReplies ==
    {Reply(tok \o b, TRUE) : tok \in ExecTokens, b \in ExecBodies}
    \cup {Reply(OKAY, FALSE),
          Reply(FAIL \o DaemonLP(TEXT_NO), FALSE),
          Reply(WHAT \o DaemonLP(TEXT_NO) \o TEXT_NO, FALSE),
          Reply(<<>>, TRUE),
          Reply(<<>>, FALSE)}
    \cup {Reply(Take(OKAY, 2), TRUE),
          Reply(<<255>> \o Take(OKAY, 3) \o TEXT_NO, TRUE),
          Reply(OKAY \o <<255>>, TRUE),
          Reply(FAIL \o <<48, 48, 103, 48>>, TRUE),
          Reply(OKAY \o <<48, 48, 48, 57>> \o TEXT_NO, TRUE),
          Reply(OKAY \o DaemonLP(<<255, 254>>), TRUE)}

\* "host:version" and a command of two two-byte characters
ExecCmds ==
    { <<104, 111, 115, 116, 58, 118, 101, 114, 115, 105, 111, 110>>,
      <<195, 169, 195, 168>> }

\* what a call of _exec_cmd returns: Ok(Response) or Err(AdbSocketError)
ExecRet(r) ==
    IF IsResponse(r.kind) THEN RetOk(r.kind, r.body, <<>>)
    ELSE IF IsSocketError(r.kind) THEN RetErr(r.kind, "", <<>>)
    ELSE NoReturn(r.kind)

ExecCall(cmd, has_prefix, read_response, has_length, reply, lost) ==
    LET Returned(r, ret) ==
            /\ socks' = [socks EXCEPT ![adb] = r.sock]
            /\ pc' = PcAfter(ret)
            /\ calls' = calls + 1
            /\ last' = Observe("_exec_cmd", 0, cmd, adb, FALSE, reply, lost,
                               0, r, ret, 0)
            /\ UNCHANGED <<adb, devices, nconn>>
        Called(r) == Returned(r, ExecRet(r))
    IN  Called(_exec_cmd(socks[adb], cmd, has_prefix, read_response,
                         has_length, reply, lost))

Exec ==
    /\ pc = "idle"
    /\ calls < MaxExecCalls
    /\ \E cmd \in ExecCmds, has_prefix \in BOOLEAN, read_response \in BOOLEAN,
          has_length \in BOOLEAN, reply \in ExecReplies, lost \in LostAt :
        ExecCall(cmd, has_prefix, read_response, has_length, reply, lost)

NextExec ==
    \/ Continue
    \/ Exec

SpecExec == Init /\ [][NextExec]_vars

----------------------------------------------------------------------------
(* The request of _exec_cmd for commands of every length *)

\* the lengths around the places where the header gains a digit
EdgeLens == {255, 256, 4095, 4096, MaxFrameLen, MaxFrameLen + 1}

\* a command of n bytes: the letter 'a' repeated, after a first character of
\* two bytes when wide
CmdOfLen(n, wide) ==
    IF wide /\ n >= 2
    THEN <<195, 169>> \o [i \in 1..(n - 2) |-> 97]
    ELSE [i \in 1..n |-> 97]

ExecFrame ==
    /\ pc = "idle"
    /\ calls < MaxExecCalls
    /\ \E n \in (0..MaxSweepLen) \cup EdgeLens, wide \in BOOLEAN,
          lost \in 0..1 :
        ExecCall(CmdOfLen(n, wide), TRUE, FALSE, FALSE, Reply(OKAY, FALSE),
                 lost)

NextFrame ==
    \/ Continue
    \/ ExecFrame

SpecFrame == Init /\ [][NextFrame]_vars

----------------------------------------------------------------------------
(* _exec_cmd and close on one Adb *)

\* Adb::close on the Adb the caller holds
Close ==
    /\ pc = "idle"
    /\ calls < MaxExecCalls
    /\ \E notconn \in BOOLEAN :
        LET Closed(c) ==
                /\ socks' = [socks EXCEPT ![adb] = c.sock]
                /\ pc' = PcAfter(c.ret)
                /\ last' = Observe("close", 0, <<>>, adb, notconn,
                                   Reply(<<>>, FALSE), 0, 0, NoExec, c.ret, 0)
        IN  Closed(close(socks[adb], notconn))
    /\ calls' = calls + 1
    /\ UNCHANGED <<adb, devices, nconn>>

NextSession ==
    \/ Continue
    \/ Exec
    \/ Close

SpecSession == Init /\ [][NextSession]_vars

----------------------------------------------------------------------------
(* get_properties and list_packages over the texts the daemon may send *)

\* the number of lines of a text
MaxBodyLines == 2

\* lines of a property dump: "[k]: [v]", "[k]: [w]\r", "[j]: []",
\* "[]: [v]", "hi", the empty line, "[k]: [v]x", "[a]: [b]: [c]",
\* "x[k]: [v]", "[k]:[v]", "[k]: [v]\r\r" and a value of one two-byte
\* character
PropLines ==
    { <<91, 107, 93, 58, 32, 91, 118, 93>>,
      <<91, 107, 93, 58, 32, 91, 119, 93, CR>>,
      <<91, 106, 93, 58, 32, 91, 93>>,
      <<91, 93, 58, 32, 91, 118, 93>>,
      <<104, 105>>,
      <<>>,
      <<91, 107, 93, 58, 32, 91, 118, 93, 120>>,
      <<91, 97, 93, 58, 32, 91, 98, 93, 58, 32, 91, 99, 93>>,
      <<120, 91, 107, 93, 58, 32, 91, 118, 93>>,
      <<91, 107, 93, 58, 91, 118, 93>>,
      <<91, 107, 93, 58, 32, 91, 118, 93, CR, CR>>,
      <<91, 107, 93, 58, 32, 91, 195, 169, 93>> }

\* lines of a package list: "package:a", "package:b", "package:", the
\* empty line, "pkg", "package:a\r", a line whose eighth byte is the first
\* of a two-byte character, and one whose seventh and eighth are
PackageLines ==
    { <<112, 97, 99, 107, 97, 103, 101, 58, 97>>,
      <<112, 97, 99, 107, 97, 103, 101, 58, 98>>,
      <<112, 97, 99, 107, 97, 103, 101, 58>>,
      <<>>,
      <<112, 107, 103>>,
      <<112, 97, 99, 107, 97, 103, 101, 58, 97, CR>>,
      <<112, 97, 99, 107, 97, 103, 101, 195, 169, 120>>,
      <<112, 97, 99, 107, 97, 103, 195, 169, 58, 120>> }

\* the texts of at most n lines, each line ended by '\n'
RECURSIVE LinesEnded(_, _)
LinesEnded(lines, n) ==
    IF n = 0 THEN { <<>> }
    ELSE LinesEnded(lines, n - 1)
         \cup {b \o l \o <<NL>> : b \in LinesEnded(lines, n - 1), l \in lines}

\* the same, and the texts whose last line has no '\n'
TextsOf(lines, n) ==
    LinesEnded(lines, n)
    \cup {b \o l : b \in LinesEnded(lines, n - 1), l \in lines}

\* the daemon answers with a status token and a text, and closes
TextReplies(lines) ==
    {Reply(OKAY \o b, TRUE) : b \in TextsOf(lines, MaxBodyLines)}
    \cup {Reply(tok \o b, TRUE) : tok \in {FAIL, WHAT}, b \in TextsOf(lines, 1)}

GetPropertiesText ==
    /\ pc = "idle"
    /\ calls < MaxExecCalls
    /\ \E i \in 1..Len(devices), reply \in TextReplies(PropLines) :
        HandleCall("get_properties", i, <<>>, reply, 0,
                   get_properties(devices[i], socks[devices[i].adb],
                                  reply, 0))

ListPackagesText ==
    /\ pc = "idle"
    /\ calls < MaxExecCalls
    /\ \E i \in 1..Len(devices), reply \in TextReplies(PackageLines) :
        HandleCall("list_packages", i, <<>>, reply, 0,
                   list_packages(devices[i], socks[devices[i].adb],
                                 reply, 0))

NextText ==
    \/ Continue
    \/ Devices
    \/ GetPropertiesText
    \/ ListPackagesText

SpecText == Init /\ [][NextText]_vars

----------------------------------------------------------------------------
(* The length field of _exec_cmd, over the fields the daemon may send *)

\* the bytes of a length field: '0', '2', '9', 'a', 'A', 'g', '+', '-' and
\* a byte that is not UTF-8
FieldBytes == {48, 50, 57, 97, 65, 103, 43, 45, 255}

\* what follows the field: nothing, "no", "no\n", ten bytes
FieldPayloads ==
    { <<>>, TEXT_NO, TEXT_NO \o <<NL>>, [i \in 1..10 |-> 120] }

\* _exec_cmd with a length-prefixed body, the first call on a connection:
\* the daemon answers the status token (when one is read), a field of four
\* bytes and a payload, and closes
ExecLength ==
    /\ pc = "idle"
    /\ calls < MaxExecCalls
    /\ socks[adb] = NewSock
    /\ \E field \in [1..4 -> FieldBytes], payload \in FieldPayloads,
          has_prefix \in BOOLEAN :
        ExecCall(HOST_DEVICES, has_prefix, TRUE, TRUE,
                 Reply((IF has_prefix THEN OKAY ELSE <<>>) \o field
                       \o payload, TRUE), 0)

NextLength ==
    \/ Continue
    \/ ExecLength

SpecLength == Init /\ [][NextLength]_vars

----------------------------------------------------------------------------
(* The claims *)

IsUpperHexByte(b) == (b >= 48 /\ b <= 57) \/ (b >= 65 /\ b <= 70)

\* the number the first four bytes of a request spell in base 16
HeaderValue(data) ==
    LET v(b) == IF b <= 57 THEN b - 48 ELSE b - 55
    IN  4096 * v(data[1]) + 256 * v(data[2]) + 16 * v(data[3]) + v(data[4])

\* the call observed went through _exec_cmd
Executed == last.exec.kind # "None"

\* C1: for a command of n bytes, 0 <= n <= 65535, the request written is
\* four upper-case zero-padded hexadecimal digits of value n (n in bytes,
\* not characters) and then exactly the n bytes of the command, nothing
\* after; reading the header back in base 16 gives n.  It is written once.
C1_RequestFraming ==
    (Executed /\ Len(last.exec.cmd) <= MaxFrameLen) =>
        LET n == Len(last.exec.cmd)
            ops == last.exec.ops
            w == ops[1]
        IN  /\ w.op = "write"
            /\ \A k \in 2..Len(ops) : ops[k].op # "write"
            /\ Len(w.data) = 4 + n
            /\ \A i \in 1..4 : IsUpperHexByte(w.data[i])
            /\ HeaderValue(w.data) = n
            /\ SubSeq(w.data, 5, 4 + n) = last.exec.cmd

\* the longest command, with a two-byte character in it, has been written
C1_Witness ==
    /\ last.op = "_exec_cmd"
    /\ Len(last.exec.cmd) = MaxFrameLen
    /\ CharCount(last.exec.cmd) < MaxFrameLen
    /\ last.exec.ops[1].st = "ok"
    /\ last.ret.kind = "Ok"

\* the status token a call read: the four bytes of its status read, the
\* empty string when no status prefix was asked for
TokenRead(e) ==
    IF e.has_prefix /\ Len(e.ops) >= 2 THEN e.ops[2].data ELSE <<>>

\* the body a call read: the bytes of its last read, nothing without a read
BodyRead(e) ==
    IF e.read_response /\ Len(e.ops) >= 2 THEN e.ops[Len(e.ops)].data
    ELSE <<>>

\* C2: a call of execute that returns an Outcome returns Ok(b) exactly when
\* the status token read is OKAY, Fail(b) exactly when it is FAIL, and
\* Unknown(b) for every other token, whatever the command; b is the body that
\* was read, unchanged.
C2_StatusClassification ==
    (last.op = "_exec_cmd" /\ last.ret.kind = "Ok") =>
        LET tok == TokenRead(last.exec)
        IN  /\ last.ret.tag \in {"Ok", "Fail", "Unknown"}
            /\ last.ret.tag = "Ok" <=> tok = OKAY
            /\ last.ret.tag = "Fail" <=> tok = FAIL
            /\ last.ret.tag = "Unknown" <=> tok \notin {OKAY, FAIL}
            /\ last.ret.text = BodyRead(last.exec)

\* a token that differs from OKAY only in case came with a body: Unknown
C2_Witness ==
    /\ last.op = "_exec_cmd"
    /\ last.exec.has_prefix
    /\ TokenRead(last.exec) = OKAY_LOWER
    /\ last.ret.kind = "Ok"
    /\ last.ret.tag = "Unknown"
    /\ last.ret.text # <<>>

\* the calls on the stream a call of execute is to make, in order, given the
\* length field it read (only the operation and the size asked for)
ExpectedOps(e) ==
    <<[op |-> "write", n |-> 4 + Len(e.cmd)]>>
    \o (IF e.has_prefix THEN <<[op |-> "read_exact", n |-> 4]>> ELSE <<>>)
    \o (IF ~e.read_response THEN <<>>
        ELSE IF ~e.has_length THEN <<[op |-> "read_to_string", n |-> 0]>>
        ELSE LET k == IF e.has_prefix THEN 3 ELSE 2
             IN  <<[op |-> "read_exact", n |-> 4],
                   [op |-> "read_exact",
                    n |-> IF Len(e.ops) >= k
                          THEN from_str_radix(e.ops[k].data).val ELSE 0]>>)

\* C3: execute makes its calls on the stream in this order and no others:
\* one write of the request; a read of exactly 4 status bytes if and only if
\* a status prefix is asked for; then no read (None, the body is empty), a
\* read to the end of the stream (ToEof), or a read of 4 bytes and a read of
\* as many bytes as they say (LengthPrefixed); then the Outcome.  A call that
\* fails stops where it fails; a call that returns an Outcome made them all.
C3_ExecuteOrder ==
    Executed =>
        LET e == last.exec
            want == ExpectedOps(e)
        IN  /\ Len(e.ops) >= 1
            /\ Len(e.ops) <= Len(want)
            /\ \A k \in 1..Len(e.ops) :
                /\ e.ops[k].op = want[k].op
                /\ e.ops[k].n = want[k].n
                /\ k < Len(e.ops) => e.ops[k].st = "ok"
            /\ IsResponse(e.kind) =>
                /\ Len(e.ops) = Len(want)
                /\ e.ops[Len(e.ops)].st = "ok"
                /\ ~e.read_response => e.body = <<>>

\* a call with a status prefix and a length-prefixed body returned its body
C3_Witness ==
    /\ last.op = "_exec_cmd"
    /\ last.exec.has_prefix /\ last.exec.read_response /\ last.exec.has_length
    /\ last.ret.kind = "Ok"
    /\ Len(last.exec.ops) = 4
    /\ last.exec.ops[4].n = 2
    /\ last.pre.inb # <<>>

----------------------------------------------------------------------------
(* The device directory *)

\* the elements of a set of numbers in ascending order
RECURSIVE Ascending(_)
Ascending(S) ==
    IF S = {} THEN <<>>
    ELSE LET m == CHOOSE x \in S : \A y \in S : x <= y
         IN  <<m>> \o Ascending(S \ {m})

\* the non-empty lines of a text, in order: the maximal runs without '\n'
LinesOf(b) ==
    LET starts == Ascending({i \in 1..Len(b) :
                                b[i] # NL /\ (i = 1 \/ b[i - 1] = NL)})
        end(i) == CHOOSE j \in i..Len(b) :
                      /\ \A k \in i..j : b[k] # NL
                      /\ j = Len(b) \/ b[j + 1] = NL
    IN  [k \in 1..Len(starts) |-> SubSeq(b, starts[k], end(starts[k]))]

Tabs(line) == {i \in 1..Len(line) : line[i] = TAB}

\* the line has the form serial<TAB>model
WellFormedLine(line) == Cardinality(Tabs(line)) = 1

SerialOf(line) == SubSeq(line, 1, Ascending(Tabs(line))[1] - 1)

ModelOf(line) == SubSeq(line, Ascending(Tabs(line))[1] + 1, Len(line))

\* the listing observed came back with status OKAY and a decoded body
ListedOk == last.op = "devices" /\ last.exec.kind = "Ok"

\* C4: on an Ok outcome, list_devices gives the empty collection, and no
\* error, when the body is the literal "0000"; otherwise it gives exactly one
\* Device Handle per non-empty line of the body, in the order of the lines,
\* and the handle of a line serial<TAB>model has that serial and that model.
C4_DeviceListing ==
    ListedOk =>
        LET lines == LinesOf(last.exec.body)
            got == last.ret.items
        IN  /\ last.ret.kind = "Ok"
            /\ last.exec.body = ZEROS => got = <<>>
            /\ last.exec.body # ZEROS =>
                /\ Len(got) = Len(lines)
                /\ \A j \in 1..Len(lines) :
                    WellFormedLine(lines[j]) =>
                        /\ got[j].serial_no = SerialOf(lines[j])
                        /\ got[j].model = ModelOf(lines[j])

\* What holds of C4 on the code: the listing of a body whose lines all hold
\* a tab returns unless a connection is refused, and whenever it returns it
\* returns what C4 says (the handles are also the ones the caller then holds).
C4_WhenReturned ==
    ListedOk =>
        LET lines == LinesOf(last.exec.body)
            got == last.ret.items
        IN  /\ last.exec.body = ZEROS => last.ret.kind = "Ok" /\ got = <<>>
            /\ ( /\ \A j \in 1..Len(lines) : Tabs(lines[j]) # {}
                 /\ last.refusedAt \notin 1..Len(lines) )
               => last.ret.kind = "Ok"
            /\ (last.ret.kind = "Ok" /\ last.exec.body # ZEROS) =>
                /\ Len(got) = Len(lines)
                /\ devices = got
                /\ \A j \in 1..Len(lines) :
                    WellFormedLine(lines[j]) =>
                        /\ got[j].serial_no = SerialOf(lines[j])
                        /\ got[j].model = ModelOf(lines[j])

\* C5: list_devices returns no collection when the status is not OKAY: a
\* Fail outcome comes back as the response-related error carrying the Fail
\* body, an Unknown outcome as the Unknown error carrying the body; no
\* handle is made and no connection is opened.
C5_ListingNotOkay ==
    (last.op = "devices" /\ last.exec.kind \in {"Fail", "Unknown"}) =>
        /\ last.ret.kind = "Err"
        /\ last.ret.items = <<>>
        /\ last.exec.kind = "Fail" =>
            /\ last.ret.tag = "ResponseRelated"
            /\ last.ret.sub = "Fail"
        /\ last.exec.kind = "Unknown" => last.ret.tag = "Unknown"
        /\ last.ret.text = BodyRead(last.exec)
        /\ last.opened = 0
        /\ DOMAIN socks = last.conns

\* FAIL came with a body that lists a device: an error carrying that body
C5_Witness ==
    /\ last.op = "devices"
    /\ TokenRead(last.exec) = FAIL
    /\ last.exec.body = LINE1
    /\ last.ret.tag = "ResponseRelated"
    /\ last.ret.text = LINE1
    /\ devices = <<>>

\* C6: every handle list_devices produced owns a connection opened for it:
\* no two handles share a connection, none shares the connection of the
\* session that discovered it, a new handle's connection did not exist before
\* the listing and nothing has happened on it; and a call on a handle changes
\* no stream but the handle's own.
C6_SocketOwnership ==
    /\ \A i \in 1..Len(devices) :
        /\ devices[i].adb \in DOMAIN socks
        /\ devices[i].adb # adb
        /\ \A j \in 1..Len(devices) :
            i # j => devices[i].adb # devices[j].adb
    /\ (last.op = "devices" /\ last.ret.kind = "Ok") =>
        \A i \in 1..Len(devices) :
            /\ devices[i].adb \notin last.conns
            /\ socks[devices[i].adb] = NewSock
    /\ last.op = "devices" => last.touched \subseteq {adb}
    /\ last.dev > 0 =>
        /\ last.conn = devices[last.dev].adb
        /\ last.touched \subseteq {devices[last.dev].adb}

\* with two handles listed, a shell command ran on the second one's stream
C6_Witness ==
    /\ Len(devices) = 2
    /\ last.op = "shell"
    /\ last.dev = 2
    /\ last.ret.kind = "Ok"
    /\ last.touched = {devices[2].adb}
    /\ socks[devices[1].adb] = NewSock

----------------------------------------------------------------------------
(* The operations on a handle *)

\* the stream the call ran on was connected and idle: nothing unread on
\* it, not closed by either side, not lost
HealthyBefore ==
    /\ last.pre.inb = <<>>
    /\ ~last.pre.eof /\ ~last.pre.shut /\ ~last.pre.broken

\* the daemon answered the request with FAIL and a text, and closed
DaemonRejected ==
    /\ HealthyBefore
    /\ last.lost = 0
    /\ Take(last.reply.bytes, 4) = FAIL
    /\ ValidUtf8(Drop(last.reply.bytes, 4))
    /\ last.reply.close

\* C7: the client does not enforce transport selection, the daemon does:
\* shell, get_properties and list_packages on a handle on which use_device
\* never succeeded still send their command on the handle's session, and
\* the daemon's FAIL comes back as the response error carrying the daemon's
\* text; never as a success and never as a transport error.
C7_TransportNotEnforced ==
    ( /\ last.op \in {"shell", "get_properties", "list_packages"}
      /\ ~last.using ) =>
        /\ Executed
        /\ last.conn = devices[last.dev].adb
        /\ last.exec.ops[1].op = "write"
        /\ HealthyBefore /\ last.lost # 1 =>
            /\ last.exec.ops[1].st = "ok"
            /\ last.touched = {last.conn}
        /\ DaemonRejected =>
            /\ last.ret.kind = "Err"
            /\ last.ret.tag = "ResponseError"
            /\ last.ret.text = Drop(last.reply.bytes, 4)
        /\ last.exec.kind = "Fail" =>
            /\ last.ret.kind = "Err"
            /\ last.ret.tag = "ResponseError"
            /\ last.ret.text = BodyRead(last.exec)

\* get_properties on a handle fresh from the listing, rejected by the daemon
C7_Witness ==
    /\ last.op = "get_properties"
    /\ ~last.using
    /\ last.pre = NewSock
    /\ DaemonRejected
    /\ last.ret.tag = "ResponseError"
    /\ last.ret.text = DaemonLP(TEXT_NO)

\* C8: shell(handle, cmd) sends exactly "shell:" followed by cmd, with a
\* status prefix and the body read to the end of the stream; an Ok outcome
\* returns the body as it was read, nothing stripped or added; a Fail or
\* Unknown outcome is the response error carrying that body, never an
\* output.
C8_Shell ==
    last.op = "shell" =>
        /\ Executed
        /\ last.exec.cmd = <<115, 104, 101, 108, 108, 58>> \o last.arg
        /\ last.exec.ops[1].data = Hex04(6 + Len(last.arg)) \o last.exec.cmd
        /\ last.exec.has_prefix
        /\ last.exec.read_response
        /\ ~last.exec.has_length
        /\ \A k \in 1..Len(last.exec.ops) :
            /\ k = 2 => last.exec.ops[k].op = "read_exact"
            /\ k = 3 => last.exec.ops[k].op = "read_to_string"
            /\ k <= 3
        /\ last.exec.kind = "Ok" =>
            /\ last.ret.kind = "Ok"
            /\ last.ret.text = BodyRead(last.exec)
            /\ HealthyBefore =>
                last.reply.bytes = OKAY \o last.ret.text
        /\ last.exec.kind \in {"Fail", "Unknown"} =>
            /\ last.ret.kind = "Err"
            /\ last.ret.tag = "ResponseError"
            /\ last.ret.text = BodyRead(last.exec)
        /\ last.ret.kind = "Ok" => TokenRead(last.exec) = OKAY

\* a command of a two-byte character printed a line: returned with its '\n'
C8_Witness ==
    /\ last.op = "shell"
    /\ last.arg = <<195, 169>>
    /\ last.ret.kind = "Ok"
    /\ Len(last.ret.text) = 3
    /\ last.ret.text[3] = NL

\* C9: install_package with a path that does not exist returns FileNotFound
\* before any network I/O: execute is not invoked, no byte is written to or
\* read from the handle's session, and no stream changes.
C9_InstallFileNotFound ==
    (last.op = "install_package" /\ ~last.arg.exists) =>
        /\ last.ret.kind = "Err"
        /\ last.ret.tag = "FileNotFound"
        /\ ~Executed
        /\ last.exec.ops = <<>>
        /\ last.touched = {}
        /\ socks[last.conn] = last.pre

\* a missing package on a handle whose session could have carried a command
C9_Witness ==
    /\ last.op = "install_package"
    /\ ~last.arg.exists
    /\ HealthyBefore
    /\ last.using
    /\ last.ret.tag = "FileNotFound"

\* how install_package is to classify what its one shell command gave
InstallClassified ==
    /\ Executed
    /\ last.exec.cmd = <<115, 104, 101, 108, 108, 58>>
                       \o <<112, 109, 32, 105, 110, 115, 116, 97, 108, 108, 32>>
                       \o last.arg.path
    /\ Cardinality({k \in 1..Len(last.exec.ops) :
                        last.exec.ops[k].op = "write"}) = 1
    /\ last.exec.kind = "Ok" =>
        IF Contains(last.exec.body, ERROR_MARK)
        THEN /\ last.ret.kind = "Err"
             /\ last.ret.tag = "PackageNotInstalled"
             /\ last.ret.text = BodyRead(last.exec)
        ELSE /\ last.ret.kind = "Ok"
             /\ last.ret.text = <<>>
             /\ last.ret.items = <<>>
    /\ (IsSocketError(last.exec.kind) \/ last.exec.kind \in {"Fail", "Unknown"})
        => last.ret.kind = "Err" /\ last.ret.tag = "ServerError"
    /\ last.ret.kind = "Ok" => last.exec.kind = "Ok"

\* C10: install_package with an existing path issues exactly one shell
\* command "pm install <path>" and classifies its result: output that
\* contains "Error:" is PackageNotInstalled carrying the output unchanged,
\* output without it is success with no payload, and a shell call that
\* failed (transport error, Fail or Unknown status) is an error, never
\* success.
C10_InstallClassification ==
    (last.op = "install_package" /\ last.arg.exists) => InstallClassified

\* What holds of C10 on the code: the same for every existing path that is
\* UTF-8; an existing path that is not UTF-8 panics before any command.
C10_Utf8Paths ==
    (last.op = "install_package" /\ last.arg.exists) =>
        IF ValidUtf8(last.arg.path) THEN InstallClassified
        ELSE last.ret.kind = "Panic" /\ ~Executed /\ last.touched = {}

----------------------------------------------------------------------------
(* The session after close *)

\* C11: after close() has returned on a session, every further call of
\* _exec_cmd on it, in every read mode and with or without the status
\* prefix, fails with the transport I/O error: it never returns a Response
\* (Ok, Fail or Unknown), whatever the daemon would have answered.
C11_ExecAfterClose ==
    (last.op = "_exec_cmd" /\ last.pre.shut) =>
        /\ last.ret.kind = "Err"
        /\ last.ret.tag = "IOError"
        /\ ~IsResponse(last.exec.kind)
        /\ Len(last.exec.ops) = 1
        /\ last.exec.ops[1].op = "write"
        /\ last.exec.ops[1].st = "err"

\* a command without prefix and without body, on a closed session whose
\* connection was otherwise good and whose daemon would have answered OKAY
C11_Witness ==
    /\ last.op = "_exec_cmd"
    /\ last.pre.shut /\ ~last.pre.broken /\ ~last.pre.eof
    /\ ~last.exec.has_prefix /\ ~last.exec.read_response
    /\ last.lost = 0
    /\ Take(last.reply.bytes, 4) = OKAY
    /\ last.ret.tag = "IOError"

\* C12: close() may be called again on a session already closed: the call
\* returns a value, Ok or a reported error, never a panic, and the session
\* stays closed.
C12_CloseAgain ==
    (last.op = "close" /\ last.pre.shut) =>
        /\ last.ret.kind \in {"Ok", "Err"}
        /\ last.ret.kind = "Err" => last.ret.tag = "IOError"
        /\ pc = "returned"
        /\ socks[last.conn].shut
        /\ last.touched = {}

\* the second close, answered ENOTCONN by the system
C12_Witness ==
    /\ last.op = "close"
    /\ last.pre.shut
    /\ last.ret.kind = "Err"
    /\ socks[last.conn].shut

----------------------------------------------------------------------------
(* The parsers of the handle *)

\* line is "[" key "]: [" value "]", with or without a '\r' after it
IsPropLine(line, key, value) ==
    LET text == <<91>> \o key \o <<93, 58, 32, 91>> \o value \o <<93>>
    IN  line = text \/ line = text \o <<CR>>

\* the ways to read line as a property line: <<key, value>>
PropReadings(line) ==
    {kv \in {<<SubSeq(line, 2, p), SubSeq(line, p + 5, q)>> :
                p \in 1..Len(line), q \in 0..Len(line)} :
        IsPropLine(line, kv[1], kv[2])}

\* the pattern takes the shortest key
PropOf(line) ==
    CHOOSE kv \in PropReadings(line) :
        \A other \in PropReadings(line) : Len(kv[1]) <= Len(other[1])

\* the table of a text: the key and value of every line that matches, the
\* last line of a key giving its value
TableHas(lines, key, value) ==
    \E j \in 1..Len(lines) :
        /\ PropReadings(lines[j]) # {}
        /\ PropOf(lines[j]) = <<key, value>>
        /\ \A k \in (j + 1)..Len(lines) :
            PropReadings(lines[k]) # {} => PropOf(lines[k])[1] # key

\* C13: on an Ok outcome get_properties returns a table that holds exactly
\* the (key, value) pairs of the lines of the form "[key]: [value]" with an
\* optional '\r' at the end: other lines are skipped and raise no error,
\* and of several lines with one key the last gives the value.  On a Fail
\* or Unknown outcome it returns the response error carrying the body, and
\* no table.
C13_PropertyTable ==
    last.op = "get_properties" =>
        /\ last.exec.kind = "Ok" =>
            /\ last.ret.kind = "Ok"
            /\ \A key \in DOMAIN last.ret.items :
                TableHas(LinesOf(BodyRead(last.exec)), key,
                         last.ret.items[key])
            /\ \A j \in 1..Len(LinesOf(BodyRead(last.exec))) :
                PropReadings(LinesOf(BodyRead(last.exec))[j]) # {} =>
                    PropOf(LinesOf(BodyRead(last.exec))[j])[1]
                        \in DOMAIN last.ret.items
        /\ last.exec.kind \in {"Fail", "Unknown"} =>
            /\ last.ret.kind = "Err"
            /\ last.ret.tag = "ResponseError"
            /\ last.ret.text = BodyRead(last.exec)
            /\ DOMAIN last.ret.items = {}
        /\ last.ret.kind = "Ok" => last.exec.kind = "Ok"

\* "[k]: [v]" and then "[k]: [w]\r": one key, the value of the second line
C13_Witness ==
    /\ last.op = "get_properties"
    /\ last.ret.kind = "Ok"
    /\ BodyRead(last.exec) = <<91, 107, 93, 58, 32, 91, 118, 93, NL,
                               91, 107, 93, 58, 32, 91, 119, 93, CR>>
    /\ DOMAIN last.ret.items = { <<107>> }
    /\ last.ret.items[<<107>>] = <<119>>

\* line without its first n characters (a character begins at every byte
\* that is not a continuation byte); nothing is left of a shorter line
DropChars(line, n) ==
    LET begins == Ascending({i \in 1..Len(line) : ~IsCont(line[i])})
    IN  IF Len(begins) <= n THEN <<>>
        ELSE SubSeq(line, begins[n + 1], Len(line))

\* what list_packages is to return on a listing with this body
PackagesListed(body) ==
    /\ last.ret.kind = "Ok"
    /\ Len(last.ret.items) = Len(LinesOf(body))
    /\ \A j \in 1..Len(LinesOf(body)) :
        last.ret.items[j] = DropChars(LinesOf(body)[j], 8)

\* C14: on an Ok outcome list_packages returns, for every body, one entry
\* per non-empty line of the body, in the order received and with
\* duplicates kept, each entry the line without its first 8 characters; on
\* a Fail or Unknown outcome it returns the response error carrying the
\* body.
C14_PackageList ==
    last.op = "list_packages" =>
        /\ last.exec.kind = "Ok" => PackagesListed(BodyRead(last.exec))
        /\ last.exec.kind \in {"Fail", "Unknown"} =>
            /\ last.ret.kind = "Err"
            /\ last.ret.tag = "ResponseError"
            /\ last.ret.text = BodyRead(last.exec)

\* the first 8 bytes of the line are there and are 8 characters
HasPrefixOf8(line) == Len(line) >= 8 /\ \A i \in 1..8 : line[i] < 128

\* What holds of C14 on the code: the same when every non-empty line begins
\* with 8 one-byte characters; a non-empty line of fewer than 8 bytes makes
\* the call panic.
C14_PrefixedLines ==
    last.op = "list_packages" =>
        /\ ( /\ last.exec.kind = "Ok"
             /\ \A j \in 1..Len(LinesOf(BodyRead(last.exec))) :
                 HasPrefixOf8(LinesOf(BodyRead(last.exec))[j]) )
            => PackagesListed(BodyRead(last.exec))
        /\ ( /\ last.exec.kind = "Ok"
             /\ \E j \in 1..Len(LinesOf(BodyRead(last.exec))) :
                 Len(LinesOf(BodyRead(last.exec))[j]) < 8 )
            => last.ret.kind = "Panic"
        /\ last.exec.kind \in {"Fail", "Unknown"} =>
            /\ last.ret.kind = "Err"
            /\ last.ret.tag = "ResponseError"
            /\ last.ret.text = BodyRead(last.exec)
        /\ last.ret.kind = "Ok" => last.exec.kind = "Ok"

----------------------------------------------------------------------------
(* The stream across the commands of one session *)

\* the call observed was made on a handle and returned a Response: no
\* transport error, no decoding error
HandleResponded == last.dev # 0 /\ Executed /\ IsResponse(last.exec.kind)

\* C15: on one session, an operation that returned without a transport or
\* decoding error has consumed every byte of the daemon's reply, also
\* use_device and get_property, which read no body, when the reply carries
\* bytes after the status token; so that, the earlier replies consumed, the
\* 4-byte status read of the next command takes the first 4 bytes of the
\* daemon's reply to that command.
C15_FramingAlignment ==
    /\ HandleResponded => socks[last.conn].inb = <<>>
    /\ ( /\ Executed
         /\ last.exec.has_prefix
         /\ last.pre.inb = <<>>
         /\ Len(last.exec.ops) >= 2
         /\ last.exec.ops[2].st = "ok" )
        => TokenRead(last.exec) = Take(last.reply.bytes, 4)

\* What holds of C15 on the code: a command that reads its body to the end
\* of the stream leaves nothing unread; use_device and get_property leave
\* unread whatever the daemon sent after the status token.
C15_UnreadBytes ==
    (HandleResponded /\ HealthyBefore) =>
        IF last.op \in {"use_device", "get_property"}
        THEN socks[last.conn].inb = Drop(last.reply.bytes, 4)
        ELSE socks[last.conn].inb = <<>>

\* the bytes use_device or get_property left unread are taken as the status
\* token of the next command, which returns Unknown whatever was answered
C15_StaleStatus ==
    /\ HandleResponded
    /\ last.exec.has_prefix
    /\ last.pre.inb # <<>> /\ ~last.pre.eof
    /\ Take(last.reply.bytes, 4) = OKAY
    /\ TokenRead(last.exec) = Take(last.pre.inb, 4)
    /\ last.exec.kind = "Unknown"

----------------------------------------------------------------------------
(* The length-prefixed body *)

IsHexByte(b) ==
    (b >= 48 /\ b <= 57) \/ (b >= 65 /\ b <= 70) \/ (b >= 97 /\ b <= 102)

\* the number four hexadecimal digits spell
FieldValue(f) ==
    LET v(b) == IF b <= 57 THEN b - 48 ELSE IF b <= 70 THEN b - 55 ELSE b - 87
    IN  4096 * v(f[1]) + 256 * v(f[2]) + 16 * v(f[3]) + v(f[4])

\* the place of the read of the length field in the log of the call
FieldAt(e) == IF e.has_prefix THEN 3 ELSE 2

\* the call observed was to read a length-prefixed body and got as far as
\* the read of the length field
LengthAsked ==
    /\ Executed
    /\ last.exec.read_response /\ last.exec.has_length
    /\ Len(last.exec.ops) >= FieldAt(last.exec)

\* the same, and the four bytes of the field were read
FieldRead == LengthAsked /\ last.exec.ops[FieldAt(last.exec)].st = "ok"

\* what the call does with a field of four hexadecimal digits: a read of
\* exactly as many bytes as they say, which are the body
DecodedByField(e, k) ==
    /\ Len(e.ops) = k + 1
    /\ e.ops[k + 1].op = "read_exact"
    /\ e.ops[k + 1].n = FieldValue(e.ops[k].data)
    /\ e.ops[k + 1].st = "ok" =>
        /\ Len(e.ops[k + 1].data) = FieldValue(e.ops[k].data)
        /\ HealthyBefore =>
            /\ e.ops[k + 1].data =
                  SubSeq(last.reply.bytes, 4 * (k - 1) + 1,
                         4 * (k - 1) + FieldValue(e.ops[k].data))
            /\ socks[last.conn].inb =
                  Drop(last.reply.bytes,
                       4 * (k - 1) + FieldValue(e.ops[k].data))
        /\ ValidUtf8(e.ops[k + 1].data) =>
            IsResponse(e.kind) /\ e.body = e.ops[k + 1].data
    /\ e.ops[k + 1].st = "err" => e.kind = "IOError"

\* C16: of a length field of four hexadecimal digits of value n, execute
\* reads exactly n further bytes, no more and no fewer, and returns them as
\* the body; a field with a byte that is not a hexadecimal digit, a leading
\* '+' or '-' included, fails with the invalid-hex error and no body byte
\* is read; a short read of the field or of the body fails with the I/O
\* error.
C16_LengthPrefixed ==
    /\ FieldRead =>
        IF \A i \in 1..4 : IsHexByte(last.exec.ops[FieldAt(last.exec)].data[i])
        THEN DecodedByField(last.exec, FieldAt(last.exec))
        ELSE /\ last.exec.kind = "InvalidHex"
             /\ Len(last.exec.ops) = FieldAt(last.exec)
    /\ (LengthAsked /\ ~FieldRead) =>
        /\ last.exec.kind \in {"IOError", "Hang"}
        /\ Len(last.exec.ops) = FieldAt(last.exec)

\* What holds of C16 on the code: a field of four hexadecimal digits is
\* decoded as said; a field that is not UTF-8 fails with the invalid-string
\* error; a '+' and three digits is read as their value; a '-' and three
\* digits of a value above 0 panics; every other field fails with the
\* invalid-hex error; no body byte is read in any of the failures.
C16_SignedLength ==
    /\ FieldRead =>
        LET e == last.exec
            k == FieldAt(last.exec)
            f == last.exec.ops[FieldAt(last.exec)].data
            digits == \A i \in 2..4 : IsHexByte(f[i])
        IN  IF \A i \in 1..4 : IsHexByte(f[i]) THEN DecodedByField(e, k)
            ELSE IF ~ValidUtf8(f)
            THEN e.kind = "InvalidString" /\ Len(e.ops) = k
            ELSE IF f[1] = 43 /\ digits
            THEN /\ Len(e.ops) = k + 1
                 /\ e.ops[k + 1].n = FieldValue(<<48, f[2], f[3], f[4]>>)
            ELSE IF f[1] = 45 /\ digits
            THEN IF FieldValue(<<48, f[2], f[3], f[4]>>) > 0
                 THEN e.kind = "Panic" /\ Len(e.ops) = k
                 ELSE Len(e.ops) = k + 1 /\ e.ops[k + 1].n = 0
            ELSE e.kind = "InvalidHex" /\ Len(e.ops) = k
    /\ (LengthAsked /\ ~FieldRead) =>
        /\ last.exec.kind \in {"IOError", "Hang"}
        /\ Len(last.exec.ops) = FieldAt(last.exec)

----------------------------------------------------------------------------
(* Errors inside _exec_cmd *)

\* the read k of the log failed, or what it read does not decode
ReadFailed(e, k) ==
    \/ e.ops[k].st # "ok"
    \/ e.ops[k].op = "read_exact" /\ ~ValidUtf8(e.ops[k].data)

\* C17: a transport or decoding error ends the call of execute at the step
\* where it occurs, and nothing is retried: after a failed write no read is
\* made; after a failed status read, or status bytes that are not UTF-8, no
\* body read is made; after a failed body read or a body that does not
\* decode no Outcome is returned, also when the status token read was OKAY
\* or FAIL; and the request is written at most once in every call.
C17_ErrorsAbort ==
    Executed =>
        /\ Cardinality({k \in 1..Len(last.exec.ops) :
                            last.exec.ops[k].op = "write"}) = 1
        /\ last.exec.ops[1].op = "write"
        /\ last.exec.ops[1].st # "ok" =>
            /\ Len(last.exec.ops) = 1
            /\ last.exec.kind = "IOError"
        /\ \A k \in 2..Len(last.exec.ops) :
            ReadFailed(last.exec, k) =>
                /\ k = Len(last.exec.ops)
                /\ ~IsResponse(last.exec.kind)
                /\ last.ret.kind # "Ok"
        /\ Len(last.exec.ops) <= Len(ExpectedOps(last.exec))
        /\ IsSocketError(last.exec.kind) =>
            /\ last.ret.kind = "Err"
            /\ last.exec.body = <<>>

\* the status token read was OKAY, the body read failed: an error, no Ok
C17_Witness ==
    /\ last.op = "_exec_cmd"
    /\ last.exec.has_prefix /\ last.exec.read_response
    /\ TokenRead(last.exec) = OKAY
    /\ Len(last.exec.ops) = 3
    /\ ReadFailed(last.exec, 3)
    /\ last.ret.kind = "Err"

----------------------------------------------------------------------------
(* The listing of no device *)

\* the daemon answered the listing with OKAY, the 4 bytes 0000 and nothing
\* else
ZeroListing ==
    /\ last.op = "devices"
    /\ HealthyBefore
    /\ last.lost = 0
    /\ last.reply.bytes = <<79, 75, 65, 89, 48, 48, 48, 48>>
    /\ last.reply.close

\* C18: when the daemon answers the listing with OKAY and the 4 bytes 0000
\* and nothing else, these 4 bytes are what is compared with the literal
\* "0000": they are not first taken as the length of a body; and the result
\* is the empty collection.
C18_SentinelFirst ==
    ZeroListing =>
        /\ last.exec.body = <<48, 48, 48, 48>>
        /\ \A k \in 1..Len(last.exec.ops) :
            (last.exec.ops[k].op = "read_exact"
                /\ last.exec.ops[k].data = <<48, 48, 48, 48>>)
                => k = Len(last.exec.ops)
        /\ last.ret.kind = "Ok"
        /\ last.ret.items = <<>>

\* What holds of C18 on the code: the 4 bytes are read as the length field,
\* a body of 0 bytes is read, the empty body is what is compared with
\* "0000", and the result is the empty collection all the same, as the
\* empty body has no line.
C18_EmptyListing ==
    ZeroListing =>
        /\ Len(last.exec.ops) = 4
        /\ last.exec.ops[3].data = <<48, 48, 48, 48>>
        /\ last.exec.ops[4].op = "read_exact"
        /\ last.exec.ops[4].n = 0
        /\ last.exec.body = <<>>
        /\ last.ret.kind = "Ok"
        /\ last.ret.items = <<>>
        /\ last.opened = 0

----------------------------------------------------------------------------
(* The session after a read to the end of the stream *)

\* nothing is left to read on the stream and nothing will come: the daemon
\* has closed its side, or the connection is lost
Exhausted(s) == s.inb = <<>> /\ (s.eof \/ s.broken)

\* the call observed read its body to the end of the stream, and the read
\* came to the end
ToEofCompleted ==
    /\ Executed
    /\ last.exec.read_response /\ ~last.exec.has_length
    /\ last.exec.ops[Len(last.exec.ops)].op = "read_to_string"
    /\ last.exec.ops[Len(last.exec.ops)].st = "ok"

\* C19: a command that read its body to the end of the stream (shell,
\* get_properties, list_packages, install_package) leaves the session of
\* its handle exhausted, and on an exhausted session every command with a
\* status prefix (shell, get_properties, list_packages, get_property,
\* use_device, install_package) returns the transport I/O error, no
\* Outcome, as the status read meets the end of the stream; the session
\* stays exhausted.
C19_SessionExhausted ==
    last.dev # 0 =>
        /\ ToEofCompleted =>
            /\ last.op \in {"shell", "get_properties", "list_packages",
                             "install_package"}
            /\ Exhausted(socks[last.conn])
            /\ ~socks[last.conn].broken
        /\ (Executed /\ Exhausted(last.pre)) =>
            /\ last.exec.has_prefix
            /\ last.exec.kind = "IOError"
            /\ last.ret.kind = "Err"
            /\ last.ret.tag \in {"IOError", "SocketError", "ServerError"}
            /\ last.ret.sub \in {"", "IOError"}
            /\ Len(last.exec.ops) <= 2
            /\ Exhausted(socks[last.conn])

\* on a session whose daemon has closed after the output of a command, a
\* get_property the daemon would have answered with OKAY
C19_Witness ==
    /\ last.op = "get_property"
    /\ Exhausted(last.pre) /\ ~last.pre.broken
    /\ last.lost = 0
    /\ Take(last.reply.bytes, 4) = OKAY
    /\ Len(last.exec.ops) = 2
    /\ last.exec.ops[2].st = "err"
    /\ last.ret.kind = "Err"

----------------------------------------------------------------------------
(* Failures of the listing *)

\* C20: list_devices reports every failure as an error value: for every
\* body of an Ok listing, a non-empty line without a tab included, and for
\* every outcome of the connections opened for the devices, a refused one
\* included, the call returns a collection of handles or an Err; it never
\* panics.
C20_ListingNeverPanics ==
    ListedOk =>
        /\ last.ret.kind \in {"Ok", "Err"}
        /\ pc # "panic"

\* What holds of C20 on the code: the listing of an Ok body panics exactly
\* when the body is not the literal 0000 and a non-empty line holds no tab
\* or the connection for one of the lines is refused; otherwise it returns
\* the collection.  It never returns an Err for an Ok body.
C20_PanicCases ==
    ListedOk =>
        LET lines == LinesOf(last.exec.body)
            fails == /\ last.exec.body # ZEROS
                     /\ \/ \E j \in 1..Len(lines) : Tabs(lines[j]) = {}
                        \/ last.refusedAt \in 1..Len(lines)
        IN  /\ fails => last.ret.kind = "Panic" /\ pc = "panic"
            /\ ~fails => last.ret.kind = "Ok"

====
